---- MODULE Spec2Model ----
(***************************************************************************)
(* Mahadeva Electronics API: the pooled engine and get_db session scope of *)
(* database.py, the route handlers of main.py and the schema creation of   *)
(* database.py / main.py / init_render_db.py.                              *)
(***************************************************************************)
EXTENDS Integers, FiniteSets, Sequences, TLC

(* ------------------------------------------------------------------ *)
(* Engine configuration (database.py, create_engine)                   *)
(* ------------------------------------------------------------------ *)

\* QueuePool's pool_size; create_engine is not given one, so the default holds.
pool_size == 5

\* max_overflow=10
max_overflow == 10

\* pool_timeout=20 (seconds)
pool_timeout == 20

(* ------------------------------------------------------------------ *)
(* Bounds of the model                                                 *)
(* ------------------------------------------------------------------ *)

\* Request slots followed step by step (one request each).
NumRequests == 1

\* List/create requests in flight at once; each holds one connection
\* between its query and get_db's close.
MaxBulk == 15

\* The wait clock stops counting here (past pool_timeout).
MaxWait == 22

\* Schema initialisation calls in one run.
MaxInitCalls == 3

Requests == 1..NumRequests

VARIABLES
    pool,       \* QueuePool: [overflow, idle]
    bulkHeld,   \* connections held by in-flight list/create requests
    req,        \* per request slot: the request's state
    store,      \* the relational store's rows
    schema,     \* tables that exist in the store
    initLog     \* results of the schema initialisation calls, oldest first

vars == <<pool, bulkHeld, req, store, schema, initLog>>

(* ------------------------------------------------------------------ *)
(* QueuePool (the pool create_engine builds)                           *)
(* ------------------------------------------------------------------ *)

\* The pool is [overflow, idle]: overflow is QueuePool._overflow, which
\* starts at -pool_size and counts the connection records created and not
\* yet closed; idle is the number of records in the pool's queue.  A record
\* holds at most one physical connection.
Connections(p) == p.overflow + pool_size

\* _inc_overflow's test: no new connection record past max_overflow.
MutOverflowFull(p) == p.overflow > max_overflow
OverflowFull(p) == p.overflow >= max_overflow

\* _do_get, first attempt.  The queue is tried first: the record is pinged
\* (pool_pre_ping) and reconnected when the ping fails; if that fails too
\* the record goes back to the queue and the checkout raises.  With the
\* queue empty a new record is created while overflow < max_overflow;
\* otherwise the caller waits.
\*   pingOk: the pre-ping round trip answers
\*   connOk: a new physical connection can be opened
DoGet(p, pingOk, connOk) ==
    IF p.idle > 0 THEN
        IF pingOk \/ connOk
        THEN [pool |-> [p EXCEPT !.idle = @ - 1], res |-> "conn"]
        ELSE [pool |-> p, res |-> "error"]
    ELSE IF ~OverflowFull(p) THEN
        IF connOk
        THEN [pool |-> [p EXCEPT !.overflow = @ + 1], res |-> "conn"]
        ELSE [pool |-> p, res |-> "error"]
    ELSE [pool |-> p, res |-> "wait"]

\* _do_get after queue.get(wait, timeout) raised Empty: TimeoutError when
\* the pool is still at max_overflow, else a new connection.
DoGetExpired(p, connOk) ==
    IF OverflowFull(p) THEN [pool |-> p, res |-> "timeout"]
    ELSE IF connOk
         THEN [pool |-> [p EXCEPT !.overflow = @ + 1], res |-> "conn"]
         ELSE [pool |-> p, res |-> "error"]

\* queue.get(wait, timeout) gives up once the caller has waited this long.
MutWaitExpired(w) == w >= pool_timeout + 1
WaitExpired(w) == w >= pool_timeout

\* _do_return_conn: the record goes back into the queue (put, maxsize
\* pool_size); on Full its connection is closed and overflow decremented.
DoReturn(p) ==
    IF p.idle < pool_size THEN [p EXCEPT !.idle = @ + 1]
    ELSE [p EXCEPT !.overflow = @ - 1]

(* ------------------------------------------------------------------ *)
(* The store's rows and the crud functions main.py imports             *)
(* ------------------------------------------------------------------ *)

\* Primary keys in use, and the values an update writes.
Ids == {1, 2}
Vals == {1}

Entities == {"products", "parts", "technicians", "bookings", "feedback"}

\* A row: val stands for the entity's own columns, technician_id for a
\* booking's assigned technician (0: none).  NoRow: no row with that key.
Row(v) == [val |-> v, technician_id |-> 0]
NoRow == [val |-> -1, technician_id |-> -1]

Emails == {"a@x.com", "nobody@x.com"}
Secrets == {"hunter2", "wrong"}

\* The stored credential: a salt and the salted hash of the secret.
HashPw(secret, salt) == <<"hash", salt, secret>>
Cred(email, secret) == [email |-> email, salt |-> <<"salt", email>>,
                        hash |-> HashPw(secret, <<"salt", email>>)]
NoUser == [email |-> "", salt |-> <<>>, hash |-> <<>>]

\* get_<entity>_by_id: the row, or None.
get_by_id(rows, id) == IF id \in DOMAIN rows THEN rows[id] ELSE NoRow

\* update_existing_<entity>: the updated row, or None when there is none.
update_existing(rows, id, v) ==
    IF get_by_id(rows, id) = NoRow
    THEN [rows |-> rows, result |-> NoRow]
    ELSE [rows |-> [rows EXCEPT ![id].val = v],
          result |-> [rows[id] EXCEPT !.val = v]]

\* delete_existing_<entity>: whether a row was deleted.
delete_existing(rows, id) ==
    IF get_by_id(rows, id) = NoRow
    THEN [rows |-> rows, result |-> FALSE]
    ELSE [rows |-> [rows EXCEPT ![id] = NoRow], result |-> TRUE]

\* authenticate_user: the user for the exact identity and secret, else None.
authenticate_user(users, email, password) ==
    IF email \notin DOMAIN users \/ users[email] = NoUser THEN NoUser
    ELSE IF HashPw(password, users[email].salt) = users[email].hash
         THEN users[email]
         ELSE NoUser

\* create_access_token(data={"sub": email})
create_access_token(email) == [sub |-> email]

(* ------------------------------------------------------------------ *)
(* Route handlers (main.py)                                            *)
(* ------------------------------------------------------------------ *)

GetEndpoints == {"get_product", "get_part", "upload_product_images"}
UpdateEndpoints == {"update_product", "update_part", "update_technician",
                    "update_booking", "update_feedback"}
DeleteEndpoints == {"delete_product", "delete_part", "delete_technician",
                    "delete_booking", "delete_feedback"}
ItemEndpoints == GetEndpoints \cup UpdateEndpoints \cup DeleteEndpoints
DbEndpoints == ItemEndpoints \cup {"assign_technician_to_booking", "login"}
ProbeEndpoints == {"health_check", "test_connection"}

\* The table a handler's crud call works on.
Entity(ep) ==
    CASE ep \in {"get_product", "update_product", "delete_product",
                 "upload_product_images"} -> "products"
      [] ep \in {"get_part", "update_part", "delete_part"} -> "parts"
      [] ep \in {"update_technician", "delete_technician"} -> "technicians"
      [] ep \in {"update_booking", "delete_booking",
                 "assign_technician_to_booking"} -> "bookings"
      [] ep \in {"update_feedback", "delete_feedback"} -> "feedback"
      [] OTHER -> "users"

\* The status of the HTTPException a handler raises when its crud call
\* finds no row.
NotFoundStatus(ep) == IF ep = "delete_part" THEN 500 ELSE 404

NotFoundDetail(ep) ==
    CASE Entity(ep) = "products" -> <<"Product not found">>
      [] Entity(ep) = "parts" -> <<"Part not found">>
      [] Entity(ep) = "technicians" -> <<"Technician not found">>
      [] Entity(ep) = "bookings" -> <<"Booking not found">>
      [] Entity(ep) = "feedback" -> <<"Feedback not found">>
      [] OTHER -> <<"not found">>

NoToken == [sub |-> ""]
NoResp == [status |-> 0, detail |-> <<>>, row |-> NoRow,
           token |-> NoToken, token_type |-> "", headers |-> <<>>]
Resp(status, detail) == [NoResp EXCEPT !.status = status, !.detail = detail]

\* except Exception as e: raise HTTPException(status_code=500,
\*     detail=f"Failed to ...: {str(e)}")   ("Login failed: ..." for login)
MutOnException(ep, why) == Resp(401, <<"Incorrect email or password">>)
OnException(ep, why) == Resp(500, <<"Failed", ep, why>>)

\* What running a handler's body gives: the response, the table's rows
\* afterwards, why it ended so, and the state of the session's connection.
Outcome(resp, rows, cause, conn) ==
    [resp |-> resp, rows |-> rows, cause |-> cause, conn |-> conn]

\* get_product, get_part, upload_product_images: look the row up, 404 if none.
HandleGet(ep, arg, rows, queryOk) ==
    IF ~queryOk
    THEN Outcome(OnException(ep, "store"), rows, "store_down", "held")
    ELSE IF get_by_id(rows, arg.id) = NoRow
    THEN Outcome(Resp(NotFoundStatus(ep), NotFoundDetail(ep)), rows,
                 "not_found", "held")
    ELSE Outcome([Resp(200, <<>>) EXCEPT !.row = get_by_id(rows, arg.id)],
                 rows, "ok", "held")

\* update_<entity>: update_existing_<entity>, 404 if it returns None.
HandleUpdate(ep, arg, rows, queryOk) ==
    LET u == update_existing(rows, arg.id, arg.val) IN
    IF ~queryOk
    THEN Outcome(OnException(ep, "store"), rows, "store_down", "held")
    ELSE IF u.result = NoRow
    THEN Outcome(Resp(NotFoundStatus(ep), NotFoundDetail(ep)), rows,
                 "not_found", "held")
    ELSE Outcome([Resp(200, <<>>) EXCEPT !.row = u.result], u.rows, "ok",
                 "held")

\* delete_<entity>: delete_existing_<entity>, not-found if it returns False.
HandleDelete(ep, arg, rows, queryOk) ==
    LET d == delete_existing(rows, arg.id) IN
    IF ~queryOk
    THEN Outcome(OnException(ep, "store"), rows, "store_down", "held")
    ELSE IF ~d.result
    THEN Outcome(Resp(NotFoundStatus(ep), NotFoundDetail(ep)), rows,
                 "not_found", "held")
    ELSE Outcome(Resp(200, <<"deleted successfully">>), d.rows, "ok", "held")

\* assign_technician_to_booking: two lookups, then the success message;
\* the booking is not written.
MutHandleAssign(ep, arg, bookings, technicians, queryOk) ==
    IF queryOk /\ get_by_id(bookings, arg.id) # NoRow
       /\ get_by_id(technicians, arg.tech) # NoRow
    THEN Outcome(Resp(200, <<"Technician assigned successfully">>),
                 [bookings EXCEPT ![arg.id].technician_id = arg.tech],
                 "ok", "held")
    ELSE Outcome(Resp(404, <<"not found">>), bookings, "not_found", "held")
HandleAssign(ep, arg, bookings, technicians, queryOk) ==
    IF ~queryOk
    THEN Outcome(OnException(ep, "store"), bookings, "store_down", "held")
    ELSE IF get_by_id(bookings, arg.id) = NoRow
    THEN Outcome(Resp(404, <<"Booking not found">>), bookings, "not_found",
                 "held")
    ELSE IF get_by_id(technicians, arg.tech) = NoRow
    THEN Outcome(Resp(404, <<"Technician not found">>), bookings,
                 "not_found", "held")
    ELSE Outcome(Resp(200, <<"Technician assigned successfully">>), bookings,
                 "ok", "held")

\* login: authenticate_user, 401 if it returns None, else a bearer token.
MutHandleLogin(ep, arg, users, queryOk) ==
    IF queryOk /\ arg.email \in DOMAIN users /\ users[arg.email] # NoUser
    THEN Outcome([Resp(200, <<>>) EXCEPT
                     !.token = create_access_token(arg.email),
                     !.token_type = "bearer"], users, "ok", "held")
    ELSE Outcome(Resp(401, <<"Incorrect email or password">>), users,
                 "wrong_secret", "held")
HandleLogin(ep, arg, users, queryOk) ==
    LET user == authenticate_user(users, arg.email, arg.password) IN
    IF ~queryOk
    THEN Outcome(OnException(ep, "store"), users, "store_down", "held")
    ELSE IF user = NoUser
    THEN Outcome([Resp(401, <<"Incorrect email or password">>) EXCEPT
                     !.headers = <<"WWW-Authenticate", "Bearer">>],
                 users,
                 IF arg.email \in DOMAIN users /\ users[arg.email] # NoUser
                 THEN "wrong_secret" ELSE "no_identity",
                 "held")
    ELSE Outcome([Resp(200, <<>>) EXCEPT
                     !.token = create_access_token(user.email),
                     !.token_type = "bearer"], users, "ok", "held")

\* The handler body of request rq, run on a session whose connection was
\* checked out: the outcome and the store afterwards.
RunHandler(rq, st, queryOk) ==
    LET ep == rq.ep
        e == Entity(ep)
        o == CASE ep \in GetEndpoints ->
                    HandleGet(ep, rq.arg, st[e], queryOk)
               [] ep \in UpdateEndpoints ->
                    HandleUpdate(ep, rq.arg, st[e], queryOk)
               [] ep \in DeleteEndpoints ->
                    HandleDelete(ep, rq.arg, st[e], queryOk)
               [] ep = "assign_technician_to_booking" ->
                    HandleAssign(ep, rq.arg, st[e], st["technicians"], queryOk)
               [] OTHER -> HandleLogin(ep, rq.arg, st[e], queryOk)
    IN [outcome |-> o, store |-> [st EXCEPT ![e] = o.rows]]

\* The handler body when the session could not get a connection: the crud
\* call raised (why: "connect" or "pool_timeout") and except Exception
\* answers.
RaiseInHandler(rq, st, why) ==
    [outcome |-> Outcome(OnException(rq.ep, why), st[Entity(rq.ep)],
                         IF why = "pool_timeout" THEN "pool_timeout"
                         ELSE "connect_failed", "none"),
     store |-> st]

(* ------------------------------------------------------------------ *)
(* Liveness probes (database.py test_connection, main.py health_check) *)
(* ------------------------------------------------------------------ *)

\* What the probe's try/except gives back for the way its round trip
\* ended: health_check's status, test_connection's True/False.
MutProbeReturn(ep, cause) ==
    IF cause = "ok"
    THEN [Resp(200, <<"healthy">>) EXCEPT !.row = Row(1)]
    ELSE Resp(500, <<"raised", cause>>)
ProbeReturn(ep, cause) ==
    IF ep = "health_check"
    THEN IF cause = "ok"
         THEN [Resp(200, <<"healthy", "connected">>) EXCEPT !.row = Row(1)]
         ELSE [Resp(200, <<"unhealthy", "disconnected">>) EXCEPT
                  !.row = Row(0)]
    ELSE IF cause = "ok"
         THEN [Resp(200, <<"True">>) EXCEPT !.row = Row(1)]
         ELSE [Resp(200, <<"False">>) EXCEPT !.row = Row(0)]

\* The probe's answer as a boolean.
ProbeSaysUp(resp) == resp.row = Row(1)

(* ------------------------------------------------------------------ *)
(* Requests                                                            *)
(* ------------------------------------------------------------------ *)

NoArg == [id |-> 0, val |-> 0, tech |-> 0, email |-> "", password |-> ""]

\* The inputs a request to ep carries.
Args(ep) ==
    CASE ep \in GetEndpoints \cup DeleteEndpoints ->
            {[NoArg EXCEPT !.id = i] : i \in Ids}
      [] ep \in UpdateEndpoints ->
            {[NoArg EXCEPT !.id = i, !.val = v] : i \in Ids, v \in Vals}
      [] ep = "assign_technician_to_booking" ->
            {[NoArg EXCEPT !.id = i, !.tech = t] : i \in Ids, t \in {0} \cup Ids}
      [] ep = "login" ->
            {[NoArg EXCEPT !.email = e, !.password = s] :
                e \in Emails, s \in Secrets}
      [] OTHER -> {NoArg}

\* The calls to the routes eps: a route and its inputs.
Calls(eps) == UNION {{[ep |-> e, arg |-> a] : a \in Args(e)} : e \in eps}

IdleRequest ==
    [ep |-> "", arg |-> NoArg, pc |-> "idle", sess |-> "NONE",
     conn |-> "none", waited |-> 0, resp |-> NoResp, cause |-> ""]

\* db.close() in get_db's finally: the session's connection, if it holds
\* one, goes back to the pool; closing a session that holds none changes
\* nothing.
MutRelease(rq, p) ==
    [rq |-> [rq EXCEPT !.sess = "CLOSED", !.conn = "none"],
     pool |-> DoReturn(p)]
Release(rq, p) ==
    [rq |-> [rq EXCEPT !.sess = "CLOSED", !.conn = "none"],
     pool |-> IF rq.conn = "none" THEN p ELSE DoReturn(p)]

\* get_db around the handler: try: yield db / finally: db.close().  The
\* session is closed whichever way the handler ended.
MutGetDbExit(rq, p) ==
    IF rq.resp.status = 200 THEN Release(rq, p)
    ELSE [rq |-> rq, pool |-> p]
GetDbExit(rq, p) == Release(rq, p)

\* The route handlers are async def and call the blocking crud functions
\* and engine.connect() directly, and nothing in the program starts a
\* thread of its own: whatever checks a connection out runs on the event
\* loop, and a checkout that waits for the pool keeps the loop, so that no
\* other request is taken up and no other checkout starts meanwhile.  Only
\* the sessions' close (get_db's finally, run in the thread pool) goes on.
LoopBusy == \E r \in Requests : req[r].pc = "waiting"

\* A request arrives.  Through Depends(get_db) it gets a new Session
\* (SessionLocal()), which holds no connection yet; a probe gets none.
Begin(r, calls) ==
    /\ req[r].pc = "idle"
    /\ IF r = 1 THEN TRUE ELSE req[r - 1].pc # "idle"
    /\ ~LoopBusy
    /\ \E c \in calls :
          req' = [req EXCEPT ![r] =
                    [@ EXCEPT !.ep = c.ep, !.arg = c.arg,
                              !.pc = IF c.ep \in ProbeEndpoints
                                     THEN "probe" ELSE "open",
                              !.sess = IF c.ep \in ProbeEndpoints
                                       THEN "NONE" ELSE "OPEN"]]
    /\ UNCHANGED <<pool, bulkHeld, store, schema, initLog>>

\* What follows the pool's answer g to request r's checkout.  A handler
\* runs its body to the response (the handlers are async def with no await
\* inside); a probe holds its connection until its round trip.  waited
\* keeps the seconds a checkout waited only when it ended in TimeoutError.
AfterGet(r, g, queryOk) ==
    LET rq == req[r]
        h == IF g.res = "conn" THEN RunHandler(rq, store, queryOk)
             ELSE RaiseInHandler(rq, store,
                                 IF g.res = "timeout" THEN "pool_timeout"
                                 ELSE "connect")
        w == IF g.res = "timeout" THEN rq.waited ELSE 0
    IN
    /\ pool' = g.pool
    /\ IF rq.ep \in ProbeEndpoints
       THEN /\ req' = [req EXCEPT ![r] =
                        IF g.res = "conn"
                        THEN [@ EXCEPT !.pc = "connected", !.conn = "held",
                                       !.waited = w]
                        ELSE [@ EXCEPT !.pc = "done", !.waited = w,
                                       !.cause = h.outcome.cause,
                                       !.resp = ProbeReturn(rq.ep,
                                                   h.outcome.cause)]]
            /\ store' = store
       ELSE /\ req' = [req EXCEPT ![r] =
                        [@ EXCEPT !.pc = "responded", !.sess = "IN_USE",
                                  !.waited = w,
                                  !.conn = h.outcome.conn,
                                  !.cause = h.outcome.cause,
                                  !.resp = h.outcome.resp]]
            /\ store' = h.store
    /\ UNCHANGED <<bulkHeld, schema, initLog>>

\* The answers the pool can give a checkout, over whether the pre-ping
\* answers and whether a connection can be opened.
GetAnswers(p) == {DoGet(p, pingOk, connOk) : pingOk, connOk \in BOOLEAN}
ExpiredAnswers(p) == {DoGetExpired(p, connOk) : connOk \in BOOLEAN}

\* Whether the handler's query succeeds matters once it has a connection.
QueryChoices(g) == IF g.res = "conn" THEN BOOLEAN ELSE {FALSE}

\* The handler's first crud call (or the probe's engine.connect()) asks the
\* pool for a connection; at a saturated pool it starts to wait.
Checkout(r) ==
    /\ req[r].pc \in {"open", "probe"}
    /\ ~LoopBusy
    /\ \E g \in GetAnswers(pool) : \E queryOk \in QueryChoices(g) :
          IF g.res = "wait"
          THEN /\ req' = [req EXCEPT ![r] =
                            [@ EXCEPT !.pc = "waiting", !.waited = 0]]
               /\ UNCHANGED <<pool, bulkHeld, store, schema, initLog>>
          ELSE AfterGet(r, g, queryOk)

\* A waiting checkout takes a record another request returned to the queue.
WaitObtain(r) ==
    /\ req[r].pc = "waiting"
    /\ pool.idle > 0
    /\ \E g \in GetAnswers(pool) : \E queryOk \in QueryChoices(g) :
          AfterGet(r, g, queryOk)

\* A waiting checkout reaches pool_timeout with the queue still empty.
WaitExpire(r) ==
    /\ req[r].pc = "waiting"
    /\ WaitExpired(req[r].waited)
    /\ pool.idle = 0
    /\ \E g \in ExpiredAnswers(pool) : \E queryOk \in QueryChoices(g) :
          AfterGet(r, g, queryOk)

\* One second passes for every waiting checkout.  A put wakes a waiting
\* get at once, so no second passes with a record in the queue.
Tick ==
    /\ \E r \in Requests : req[r].pc = "waiting"
    /\ pool.idle = 0
    /\ \A r \in Requests :
          req[r].pc = "waiting" =>
             ~WaitExpired(req[r].waited) /\ req[r].waited < MaxWait
    /\ req' = [r \in Requests |->
                 IF req[r].pc = "waiting"
                 THEN [req[r] EXCEPT !.waited = @ + 1] ELSE req[r]]
    /\ UNCHANGED <<pool, bulkHeld, store, schema, initLog>>

\* The request ends: get_db's finally closes the session.
Close(r) ==
    /\ req[r].pc = "responded"
    /\ LET x == GetDbExit(req[r], pool) IN
          /\ req' = [req EXCEPT ![r] = [x.rq EXCEPT !.pc = "done"]]
          /\ pool' = x.pool
    /\ UNCHANGED <<bulkHeld, store, schema, initLog>>

\* The probe's round trip inside "with engine.connect() as conn", and the
\* with block's exit, which returns the connection.  test_connection hands
\* execute a plain str, which the installed SQLAlchemy may refuse
\* (accepted = FALSE) before anything is sent; health_check wraps it in
\* text().
ProbeExecute(r) ==
    /\ req[r].pc = "connected"
    /\ \E accepted \in BOOLEAN, queryOk \in BOOLEAN :
          LET cause == IF req[r].ep = "test_connection" /\ ~accepted
                       THEN "not_executable"
                       ELSE IF queryOk THEN "ok" ELSE "store_down"
              x == Release(req[r], pool)
          IN /\ req' = [req EXCEPT ![r] =
                          [x.rq EXCEPT !.pc = "done", !.sess = "NONE",
                                       !.cause = cause,
                                       !.resp = ProbeReturn(req[r].ep, cause)]]
             /\ pool' = x.pool
    /\ UNCHANGED <<bulkHeld, store, schema, initLog>>

\* A list or create request (get_products, create_product, ...) runs its
\* handler: its session checks a connection out and keeps it until close.
\* One that waits at a saturated pool, or whose checkout raises, leaves
\* the pool as it was.
BulkCheckout ==
    /\ bulkHeld < MaxBulk
    /\ ~LoopBusy
    /\ LET g == DoGet(pool, TRUE, TRUE) IN
          /\ g.res = "conn"
          /\ pool' = g.pool
          /\ bulkHeld' = bulkHeld + 1
    /\ UNCHANGED <<req, store, schema, initLog>>

\* A list or create request ends: get_db's finally returns its connection.
BulkClose ==
    /\ bulkHeld > 0
    /\ pool' = DoReturn(pool)
    /\ bulkHeld' = bulkHeld - 1
    /\ UNCHANGED <<req, store, schema, initLog>>

(* ------------------------------------------------------------------ *)
(* Schema creation (Base.metadata.create_all(bind=engine))             *)
(* ------------------------------------------------------------------ *)

\* The tables of models.Base.metadata, and a table it does not know.
Tables == Entities \cup {"users"}
AllTables == Tables \cup {"alembic_version"}

\* create_all with its default checkfirst=True: every table of the
\* metadata that does not exist yet is created, in one transaction; with
\* the store unreachable nothing is created and the call raises.
MutCreateAll(s, reach) ==
    IF reach /\ s \cap Tables = {}
    THEN [schema |-> s \cup Tables, raised |-> FALSE]
    ELSE [schema |-> s, raised |-> TRUE]
CreateAll(s, reach) ==
    IF reach
    THEN [schema |-> s \cup {t \in Tables : t \notin s}, raised |-> FALSE]
    ELSE [schema |-> s, raised |-> TRUE]

\* One schema initialisation: create_all inside try/except Exception, on a
\* connection checked out of the pool and returned.  The callers differ
\* only in what they print and return (startup_event returns nothing).
InitCall(by) ==
    /\ Len(initLog) < MaxInitCalls
    /\ \E reach \in BOOLEAN :
          LET c == CreateAll(schema, reach)
              g == DoGet(pool, reach, reach)
          IN /\ schema' = c.schema
             /\ pool' = IF g.res = "conn" THEN DoReturn(g.pool) ELSE g.pool
             /\ initLog' = Append(initLog,
                              [by |-> by, reach |-> reach,
                               ok |-> ~c.raised,
                               before |-> schema, after |-> c.schema])
    /\ UNCHANGED <<bulkHeld, req, store>>

\* database.init_database
init_database == InitCall("database.init_database")

\* main.startup_event
startup_event == InitCall("main.startup_event")

\* init_render_db.init_database
render_init_database == InitCall("init_render_db.init_database")

(* ------------------------------------------------------------------ *)
(* Specifications                                                      *)
(* ------------------------------------------------------------------ *)

EmptyPool == [overflow |-> 0 - pool_size, idle |-> 0]

\* Row 1 of every table exists, the other keys are free.
InitRows == [i \in Ids |-> IF i = 1 THEN Row(0) ELSE NoRow]

StoreWith(users) ==
    [t \in Tables |-> IF t = "users" THEN users ELSE InitRows]

\* The credential stores: each identity unregistered or registered with
\* one of the secrets.
UserStores ==
    {u \in [Emails -> {NoUser} \cup
                       {Cred(e, s) : e \in Emails, s \in Secrets}] :
        \A e \in Emails : u[e] = NoUser \/ u[e].email = e}

\* The spec's example store: "a@x.com" registered with "hunter2".
ExampleUsers ==
    [e \in Emails |-> IF e = "a@x.com" THEN Cred(e, "hunter2") ELSE NoUser]

InitCommon ==
    /\ pool = EmptyPool
    /\ bulkHeld = 0
    /\ req = [r \in Requests |-> IdleRequest]
    /\ initLog = <<>>

\* The pool under load: requests to get_product, logins of "a@x.com", the
\* probes, and list/create traffic that can saturate the pool.
LoadCalls ==
    Calls({"get_product"} \cup ProbeEndpoints)
    \cup {c \in Calls({"login"}) : c.arg.email = "a@x.com"}

Init ==
    /\ InitCommon
    /\ store = StoreWith(ExampleUsers)
    /\ schema = Tables

Next ==
    \/ \E r \in Requests : Begin(r, LoadCalls)
    \/ \E r \in Requests : Checkout(r)
    \/ \E r \in Requests : WaitObtain(r)
    \/ \E r \in Requests : WaitExpire(r)
    \/ \E r \in Requests : Close(r)
    \/ \E r \in Requests : ProbeExecute(r)
    \/ Tick
    \/ BulkCheckout
    \/ BulkClose

Spec == Init /\ [][Next]_vars

\* The routes: every handler that works on one row, and login, over any
\* credential store.
InitApi ==
    /\ InitCommon
    /\ \E u \in UserStores : store = StoreWith(u)
    /\ schema = Tables

NextApi ==
    \/ \E r \in Requests : Begin(r, Calls(DbEndpoints))
    \/ \E r \in Requests : Checkout(r)
    \/ \E r \in Requests : Close(r)

SpecApi == InitApi /\ [][NextApi]_vars

\* Schema initialisation from any schema state.
InitSchema ==
    /\ InitCommon
    /\ store = StoreWith(ExampleUsers)
    /\ schema \in SUBSET AllTables

NextSchema ==
    \/ init_database
    \/ startup_event
    \/ render_init_database

SpecSchema == InitSchema /\ [][NextSchema]_vars

\* The pool under load with the scheduling the program relies on: the
\* clock advances, and a waiting queue.get returns when a record arrives or
\* its timeout is reached.
SpecFair ==
    /\ Init
    /\ [][Next]_vars
    /\ WF_vars(Tick)
    /\ \A r \in Requests : WF_vars(WaitObtain(r)) /\ WF_vars(WaitExpire(r))

(* ------------------------------------------------------------------ *)
(* Properties                                                          *)
(* ------------------------------------------------------------------ *)

Ended(r) == req[r].pc \in {"responded", "done"}
Holders == {r \in Requests : req[r].conn = "held"}

\* QueuePool.checkedout(): maxsize - qsize + overflow.
CheckedOut(p) == pool_size - p.idle + p.overflow

\* The connections in existence: in the queue or held by a request.
OpenConnections == pool.idle + bulkHeld + Cardinality(Holders)

StoreFailures == {"store_down", "connect_failed", "pool_timeout"}

\* C1: a request that got its session from get_db has it closed, and holds
\* no connection, once it has ended, however its handler ended (200, 404,
\* 401 or 500); when every request has ended the pool counts no connection
\* as checked out.
C1_SessionReleasedOnEveryExit ==
    /\ \A r \in Requests :
          req[r].pc = "done" /\ req[r].ep \in DbEndpoints =>
             req[r].sess = "CLOSED" /\ req[r].conn = "none"
    /\ (bulkHeld = 0 /\ \A r \in Requests : req[r].pc \in {"idle", "done"})
          => CheckedOut(pool) = 0 /\ OpenConnections = pool.idle

\* A request ended with a business error and its connection is back.
C1_Witness ==
    \E r \in Requests :
        /\ req[r].pc = "done" /\ req[r].resp.status = 404
        /\ bulkHeld = 0 /\ pool.idle > 0 /\ CheckedOut(pool) = 0

\* C2: the connections open at any instant, idle in the pool or held by a
\* session or a probe, never number more than pool_size + max_overflow.
C2_ConnectionsBounded ==
    /\ OpenConnections <= pool_size + max_overflow
    /\ Connections(pool) = OpenConnections

\* The pool is at its bound and the health probe holds one of them.
C2_Witness ==
    /\ OpenConnections = pool_size + max_overflow
    /\ \E r \in Requests :
          req[r].ep = "health_check" /\ req[r].pc = "connected"

C7_LivenessProbeNeverRaises ==
    \A r \in Requests :
        req[r].ep \in ProbeEndpoints /\ req[r].pc = "done" =>
           /\ req[r].resp.status = 200
           /\ req[r].resp.detail[1] \in {"healthy", "unhealthy", "True", "False"}
           /\ req[r].cause \in {"store_down", "connect_failed"}
                 => ~ProbeSaysUp(req[r].resp)
           /\ req[r].cause = "ok" <=> ProbeSaysUp(req[r].resp)
           /\ req[r].conn = "none"
           /\ Connections(pool) = OpenConnections

\* The health probe found the store unreachable in its round trip and its
\* connection is back in the queue.
C7_Witness ==
    \E r \in Requests :
        /\ req[r].ep = "health_check" /\ req[r].pc = "done"
        /\ req[r].cause = "store_down" /\ ~ProbeSaysUp(req[r].resp)
        /\ pool.idle > 0 /\ bulkHeld = 0

\* C8, the safety part: a checkout never waits past pool_timeout, and one
\* that ended in TimeoutError waited exactly pool_timeout and got no
\* connection.
C8_WaitBounded ==
    \A r \in Requests :
        /\ req[r].pc = "waiting" => req[r].waited <= pool_timeout
        /\ req[r].cause = "pool_timeout" =>
              /\ req[r].waited = pool_timeout
              /\ req[r].conn = "none"
              /\ ~ProbeSaysUp(req[r].resp)
              /\ req[r].ep \in DbEndpoints => req[r].resp.status = 500

\* C8, the step that ends a wait: at a pool still saturated it ends in
\* TimeoutError, without a connection; otherwise never in TimeoutError.
C8_EndOfWait ==
    \A r \in Requests :
        req[r].pc = "waiting" /\ req'[r].pc # "waiting" =>
           IF pool.idle = 0 /\ pool.overflow >= max_overflow
           THEN /\ req[r].waited = pool_timeout
                /\ req'[r].cause = "pool_timeout"
                /\ req'[r].conn = "none"
                /\ pool' = pool
           ELSE req'[r].cause # "pool_timeout"

\* C8: under pool saturation a checkout waits at most pool_timeout seconds
\* and then fails with TimeoutError, getting no connection past the bound;
\* it never waits forever; and once a connection has been released while
\* it waits, it ends otherwise than in TimeoutError.
C8_AcquireTimesOut ==
    /\ []C8_WaitBounded
    /\ [][C8_EndOfWait]_vars
    /\ \A r \in Requests :
          (req[r].pc = "waiting") ~> (req[r].pc # "waiting")
    /\ \A r \in Requests :
          (req[r].pc = "waiting" /\ pool.idle > 0)
             ~> (req[r].pc # "waiting" /\ req[r].cause # "pool_timeout")

\* A checkout waited out pool_timeout at a saturated pool and failed.
C8_Witness ==
    \E r \in Requests :
        /\ req[r].cause = "pool_timeout" /\ req[r].waited = pool_timeout
        /\ OpenConnections = pool_size + max_overflow

\* The submitted pair is the stored credential record of its identity.
Matches(users, email, password) ==
    /\ email \in DOMAIN users
    /\ users[email] # NoUser
    /\ users[email].hash = HashPw(password, users[email].salt)

TokenIssued(resp) == resp.token # NoToken

\* The one response login gives a pair that does not match.
AuthFailure ==
    [Resp(401, <<"Incorrect email or password">>) EXCEPT
        !.headers = <<"WWW-Authenticate", "Bearer">>]

\* C4: login issues a bearer token, for the submitted identity, only to a
\* pair that matches a stored credential record, and to every such pair
\* whose lookup went through; a pair that does not match gets the same 401
\* response whether the identity is unknown or the secret is wrong.
C4_TokenIffCredentialsMatch ==
    \A r \in Requests :
        req[r].ep = "login" /\ Ended(r) =>
           LET a == req[r].arg
               m == Matches(store["users"], a.email, a.password)
               looked == req[r].cause \notin StoreFailures
           IN /\ TokenIssued(req[r].resp) =>
                    /\ m
                    /\ req[r].resp.status = 200
                    /\ req[r].resp.token = [sub |-> a.email]
                    /\ req[r].resp.token_type = "bearer"
              /\ looked /\ m => TokenIssued(req[r].resp)
              /\ looked /\ ~m => req[r].resp = AuthFailure

\* A login with the wrong secret for a registered identity was refused.
C4_Witness ==
    \E r \in Requests :
        /\ req[r].ep = "login" /\ Ended(r)
        /\ store["users"][req[r].arg.email] # NoUser
        /\ ~Matches(store["users"], req[r].arg.email, req[r].arg.password)
        /\ req[r].resp = AuthFailure

\* C5: a login whose credential lookup failed (the store or the pool gave
\* no answer) is answered 500, never 401 and never with a token.
C5_LookupFailureIsNotAuthFailure ==
    \A r \in Requests :
        req[r].ep = "login" /\ Ended(r) /\ req[r].cause \in StoreFailures =>
           /\ req[r].resp.status = 500
           /\ req[r].resp.status # AuthFailure.status
           /\ req[r].resp.detail # AuthFailure.detail
           /\ ~TokenIssued(req[r].resp)

\* A login with a matching pair met an unreachable store.
C5_Witness ==
    \E r \in Requests :
        /\ req[r].ep = "login" /\ Ended(r)
        /\ req[r].cause = "store_down"
        /\ Matches(store["users"], req[r].arg.email, req[r].arg.password)
        /\ req[r].resp.status = 500

\* C6: for every get, update and delete of one row, the status answered
\* when the row does not exist differs from the status answered when the
\* store operation fails.
C6_NotFoundDistinctFromStoreFailure ==
    \A r \in Requests :
        req[r].ep \in ItemEndpoints /\ Ended(r) /\ req[r].cause = "not_found"
           => req[r].resp.status # OnException(req[r].ep, "store").status

\* C10, one step: assign_technician_to_booking's handler leaves every row
\* as it was, answers 404 when the booking or the technician is missing
\* and "Technician assigned successfully" otherwise.
C10_AssignStep ==
    \A r \in Requests :
        (/\ req[r].ep = "assign_technician_to_booking"
         /\ req[r].pc # "responded" /\ req'[r].pc = "responded") =>
           LET a == req[r].arg
               missing == \/ get_by_id(store["bookings"], a.id) = NoRow
                          \/ get_by_id(store["technicians"], a.tech) = NoRow
           IN /\ store' = store
              /\ req'[r].cause \notin StoreFailures =>
                    IF missing
                    THEN /\ req'[r].resp.status = 404
                         /\ req'[r].cause = "not_found"
                    ELSE /\ req'[r].resp.status = 200
                         /\ req'[r].resp.detail =
                               <<"Technician assigned successfully">>

C9_InitSchemaIdempotent ==
    \A i \in 1..Len(initLog) :
        LET e == initLog[i] IN
        /\ e.reach =>
              /\ e.ok
              /\ e.after = e.before \cup Tables
              /\ Tables \subseteq e.before => e.after = e.before
        /\ (i > 1 /\ e.reach /\ initLog[i - 1].reach) =>
              /\ e.ok
              /\ e.after = initLog[i - 1].after
        /\ i = Len(initLog) => e.after = schema

\* Two initialisations in a row reached the store; the first created
\* tables, the second found them all.
C9_Witness ==
    /\ Len(initLog) >= 2
    /\ initLog[1].reach /\ initLog[2].reach
    /\ initLog[1].before # initLog[1].after
    /\ initLog[2].before = initLog[2].after
    /\ initLog[2].ok

====
